---- MODULE Spec2Model ----
(***************************************************************************)
(* A model of `docker attach` (cli/command/container/attach.go): RunAttach *)
(* as a sequential process, one action per API interaction, interleaved    *)
(* with its environment: the container changing state, the daemon          *)
(* answering the wait request, the hijacked connection ending, the user    *)
(* cancelling, OS signals arriving.                                        *)
(***************************************************************************)
EXTENDS Integers, Sequences, FiniteSets, TLC

\* Largest exit status the remote process reports in the model.
MaxStatus == 2
\* Most OS signals delivered to the client during one session.
MaxSignals == 2
\* Most changes of the local terminal's size during one session.
MaxWindowChanges == 1
\* Longest detach key sequence, largest byte value and longest input of the detach scanner.
MaxKeys == 3
MaxByte == 2
MaxInput == 4
\* Most chunks the remote side writes, and the longest payload of one chunk.
MaxFrames == 2
MaxPayload == 2
\* Most arguments given to `docker plugin enable`, and the largest timeout, either sign.
MaxArgs == 2
MaxTimeout == 1

VARIABLES
    opts,           \* *AttachOptions: NoStdin, Proxy, DetachKeys
    configKeys,     \* dockerCLI.ConfigFile().DetachKeys
    outIsTerminal,  \* dockerCLI.Out().IsTerminal()
    ctrConfig,      \* the container's Config: Tty, OpenStdin
    ctrState,       \* the container's State as the daemon holds it
    pc,             \* RunAttach's position
    waitReq,        \* ContainerWait has been called
    resultC,        \* <-chan container.WaitResponse: <<>> or <<value>>
    errC,           \* <-chan error of ContainerWait: <<>> or <<message>>
    cancelled,      \* ctx.Done() is closed
    c,              \* the first inspection's response (Config, State)
    options,        \* container.AttachOptions built by RunAttach
    inStream,       \* `in`: "stdin" when attached, "nil" otherwise
    sigc,           \* the signal subscription: "none", "open", "stopped"
    defers,         \* RunAttach's deferred calls, in the order deferred
    conn,           \* the hijacked connection: "none", "open", "closed"
    connEv,         \* what the remote end did to it: "none", "eof", "ioerr"
    detached,       \* the detach key sequence was read from the input
    streamer,       \* the hijackedIOStreamer's fields, once built
    streamErr,      \* what streamer.stream returned
    resizes,        \* the resize requests issued, in order, each with its outcome
    errOut,         \* the lines written to dockerCLI.Err()
    pendingSigs,    \* signals received on sigc and not yet forwarded
    calls,          \* counters of the calls made, by name
    hist,           \* history: what the inspections saw, when events happened
    outcome,        \* RunAttach's return value
    scan,           \* the detach scanner on the input: its sequence, progress and output
    dmx,            \* the remote-to-local copier: the bytes received and delivered
    plug,           \* one run of `docker plugin enable`
    call            \* one call of a helper modelled on its own: its inputs, its position, its results

vars == <<opts, configKeys, outIsTerminal, ctrConfig, ctrState, pc, waitReq,
          resultC, errC, cancelled, c, options, inStream, sigc, defers, conn,
          connEv, detached, streamer, streamErr, resizes, errOut, pendingSigs,
          calls, hist, outcome, scan, dmx, plug, call>>

----------------------------------------------------------------------------
\* Error values. Go's `error` is modelled by a record: nil, an error with a
\* message, or a cli.StatusError with a status code.

Nil == [kind |-> "nil", msg |-> "", code |-> 0]
Pending == [kind |-> "pending", msg |-> "", code |-> 0]
ErrorsNew(m) == [kind |-> "error", msg |-> m, code |-> 0]
StatusError(n) == [kind |-> "status", msg |-> "", code |-> n]

ErrStopped == ErrorsNew("You cannot attach to a stopped container, start it first")
ErrPaused == ErrorsNew("You cannot attach to a paused container, unpause it first")
ErrRestarting == ErrorsNew("You cannot attach to a restarting container, wait until it is running")
ContextCanceled == ErrorsNew("context canceled")

StateErrors == {ErrStopped, ErrPaused, ErrRestarting}
InspectErrors == {ErrorsNew("No such container"), ErrorsNew("inspect: connection refused")}
AttachErrors == {ErrorsNew("attach: connection refused"), ErrorsNew("attach: hijack failed")}
WaitErrors == {ErrorsNew("wait: unexpected EOF")}
ErrNotATty == ErrorsNew("the input device is not a TTY")
ErrStreamIO == ErrorsNew("read: connection reset by peer")
ErrEscape == ErrorsNew("read escape sequence")

\* The states the daemon reports for a container.
StRunning == [Running |-> TRUE, Paused |-> FALSE, Restarting |-> FALSE]
StPaused == [Running |-> TRUE, Paused |-> TRUE, Restarting |-> FALSE]
StRestarting == [Running |-> TRUE, Paused |-> FALSE, Restarting |-> TRUE]
StExited == [Running |-> FALSE, Paused |-> FALSE, Restarting |-> FALSE]
ContainerStates == {StRunning, StPaused, StRestarting, StExited}

NoInspect == [err |-> Pending, State |-> StExited, Config |-> [Tty |-> FALSE, OpenStdin |-> FALSE]]
NoOptions == [Stream |-> FALSE, Stdin |-> FALSE, Stdout |-> FALSE, Stderr |-> FALSE, DetachKeys |-> ""]
NoStreamer == [built |-> FALSE, inputStream |-> "nil", outputStream |-> "nil",
               errorStream |-> "nil", tty |-> FALSE, detachKeys |-> ""]
GetTtySize == <<24, 80>>

SetupPcs == {"inspect1", "setup", "signals", "attach", "inspect2", "resize", "stream"}

----------------------------------------------------------------------------
\* The components modelled on their own, before they are given anything to do.
NoScan == [keys |-> <<>>, tty |-> FALSE, read |-> <<>>, idx |-> 0, sent |-> <<>>,
           reports |-> 0, at |-> 0]
NoDemux == [tty |-> FALSE, frames |-> <<>>, wire |-> <<>>, pos |-> 0, mode |-> "tag",
            cur |-> 0, left |-> 0, out |-> <<>>, err |-> <<>>]
NoPlugin == [pc |-> "idle", args |-> <<>>, timeout |-> 0, enableErr |-> Nil,
             requests |-> <<>>, out |-> "", err |-> Pending]
NoCall == [fn |-> "none"]

\* One attach session about to start.
SessionInit ==
    /\ opts \in [NoStdin : BOOLEAN, Proxy : BOOLEAN, DetachKeys : {"", "ctrl-x"}]
    /\ configKeys \in {"", "ctrl-p,ctrl-q"}
    /\ outIsTerminal \in BOOLEAN
    /\ ctrConfig \in [Tty : BOOLEAN, OpenStdin : BOOLEAN]
    /\ ctrState \in ContainerStates
    /\ pc = "start"
    /\ waitReq = FALSE
    /\ resultC = <<>>
    /\ errC = <<>>
    /\ cancelled = FALSE
    /\ c = NoInspect
    /\ options = NoOptions
    /\ inStream = "nil"
    /\ sigc = "none"
    /\ defers = <<>>
    /\ conn = "none"
    /\ connEv = "none"
    /\ detached = FALSE
    /\ streamer = NoStreamer
    /\ streamErr = Pending
    /\ resizes = <<>>
    /\ errOut = <<>>
    /\ pendingSigs = 0
    /\ calls = [wait |-> 0, inspect |-> 0, attach |-> 0, notify |-> 0,
                stopCatch |-> 0, close |-> 0, stream |-> 0, kill |-> 0,
                killErr |-> 0]
    /\ hist = [obs1 |-> NoInspect, obs2 |-> NoInspect, exitedInSetup |-> FALSE,
               resultBeforeClose |-> FALSE, attachErr |-> Pending, cancelInStream |-> FALSE,
               via |-> "none", signals |-> 0, copiersLeft |-> {}]
    /\ outcome = Pending

Init ==
    /\ SessionInit
    /\ scan = NoScan
    /\ dmx = NoDemux
    /\ plug = NoPlugin
    /\ call = NoCall

----------------------------------------------------------------------------
\* The API client, as RunAttach sees it.

\* apiClient.ContainerInspect: the daemon's view of the container now, or an error.
ContainerInspect ==
    {[err |-> Nil, State |-> ctrState, Config |-> ctrConfig]}
        \cup {[err |-> e, State |-> NoInspect.State, Config |-> NoInspect.Config] : e \in InspectErrors}

\* apiClient.ContainerAttach: a hijacked connection (Nil) or an error.
ContainerAttach == {Nil} \cup AttachErrors

\* dockerCLI.In().CheckTty(attachStdin, ttyMode): may refuse only a TTY session
\* that attaches standard input.
CheckTty(attachStdin, ttyMode) ==
    IF attachStdin /\ ttyMode THEN {Nil, ErrNotATty} ELSE {Nil}

\* What the daemon may send as the wait response.
NoWaitError == "<nil>"
WaitResponses == [StatusCode : 0..MaxStatus, Error : {NoWaitError, "OOM killed"}]

----------------------------------------------------------------------------
\* attach.go

\* The state check with the paused test left out.
inspectContainerAndCheckState_NoPausedCheck(r) ==
    IF r.err # Nil THEN r.err
    ELSE IF ~r.State.Running THEN ErrStopped
    ELSE IF r.State.Restarting THEN ErrRestarting
    ELSE Nil

inspectContainerAndCheckState(r) ==
    IF r.err # Nil THEN r.err
    ELSE IF ~r.State.Running THEN ErrStopped
    ELSE IF r.State.Paused THEN ErrPaused
    ELSE IF r.State.Restarting THEN ErrRestarting
    ELSE Nil

\* getExitStatus testing the status code before the recorded error.
ExitStatusOf_StatusFirst(result) ==
    IF result.StatusCode # 0 THEN StatusError(result.StatusCode)
    ELSE IF result.Error # NoWaitError THEN ErrorsNew(result.Error)
    ELSE Nil

\* getExitStatus without the status code test.
ExitStatusOf_NoStatus(result) ==
    IF result.Error # NoWaitError THEN ErrorsNew(result.Error)
    ELSE Nil

\* The value getExitStatus returns for a wait response taken from resultC.
ExitStatusOf(result) ==
    IF result.Error # NoWaitError THEN ErrorsNew(result.Error)
    ELSE IF result.StatusCode # 0 THEN StatusError(result.StatusCode)
    ELSE Nil

\* getExitStatus receiving from resultC only.
getExitStatus_ResultOnly(eC, rC) ==
    {ExitStatusOf(rC[i]) : i \in DOMAIN rC}

\* getExitStatus's select: one return value per channel that is ready.
getExitStatus(eC, rC) ==
    {ExitStatusOf(rC[i]) : i \in DOMAIN rC} \cup {eC[i] : i \in DOMAIN eC}

\* The configured default taking precedence over the command-line override.
DetachKeysOf_ConfiguredFirst(o, configured) ==
    IF configured # "" THEN configured ELSE o.DetachKeys

\* detachKeys as RunAttach chooses it (the override, else the configured default).
DetachKeysOf(o, configured) ==
    IF o.DetachKeys # "" THEN o.DetachKeys ELSE configured

\* The options asking for standard input whenever the flag allows it.
AttachOptionsOf_IgnoresOpenStdin(o, cfg, configured) ==
    [Stream |-> TRUE, Stdin |-> ~o.NoStdin, Stdout |-> TRUE,
     Stderr |-> TRUE, DetachKeys |-> DetachKeysOf(o, configured)]

\* container.AttachOptions as RunAttach builds it.
AttachOptionsOf(o, cfg, configured) ==
    [Stream |-> TRUE, Stdin |-> ~o.NoStdin /\ cfg.OpenStdin, Stdout |-> TRUE,
     Stderr |-> TRUE, DetachKeys |-> DetachKeysOf(o, configured)]

\* The subscription decided by the proxy flag alone.
ProxySignals_IgnoresTty(o, cfg) == o.Proxy

\* Whether RunAttach subscribes to OS signals and starts ForwardAllSignals.
ProxySignals(o, cfg) == o.Proxy /\ ~cfg.Tty

\* Whether RunAttach calls resizeTTY.
NeedsResize(cfg, isTerminal) == cfg.Tty /\ isTerminal

\* initTtySize's line on dockerCLI.Err() when the initial sizing fails.
ResizeFailedLine == "failed to resize tty, using default size"

\* MonitorTtySize's first request (initTtySize): the terminal's size as it is.
MonitorTtySizeInitial(size) == <<[size |-> size, by |-> "initTtySize"]>>

\* resizeTTY issuing the true size first and the perturbed size after it.
resizeTTY_PerturbationLast(size) ==
    MonitorTtySizeInitial(size) \o <<[size |-> <<size[1] + 1, size[2] + 1>>, by |-> "resizeTtyTo"]>>

\* resizeTTY: the perturbed size (resizeTtyTo with height+1, width+1), then MonitorTtySize.
resizeTTY(size) ==
    <<[size |-> <<size[1] + 1, size[2] + 1>>, by |-> "resizeTtyTo"]>> \o MonitorTtySizeInitial(size)

\* What the initial sizing writes to dockerCLI.Err(), given the requests made
\* with their outcomes: the line, once, when initTtySize's request failed.
initTtySizeLines(made) ==
    IF \E i \in DOMAIN made : made[i].by = "initTtySize" /\ ~made[i].ok
    THEN <<ResizeFailedLine>>
    ELSE <<>>

\* Every error of the streamer returned, the cancellation error too.
ReturnsStreamError_All(err) == err # Nil

\* No error of the streamer returned.
ReturnsStreamError_None(err) == FALSE

\* Whether RunAttach returns the streamer's error (otherwise it goes on to getExitStatus).
ReturnsStreamError(err) == err # Nil /\ err # ContextCanceled

Count(s, x) == Cardinality({i \in DOMAIN s : s[i] = x})

\* A return of RunAttach with value err: the deferred calls run, last deferred first.
\* resp.Close closes the hijacked connection, signal.StopCatch releases sigc.
Return(err, made) ==
    /\ pc' = "done"
    /\ outcome' = err
    /\ conn' = IF Count(defers, "resp.Close") > 0 THEN "closed" ELSE conn
    /\ sigc' = IF Count(defers, "signal.StopCatch") > 0 THEN "stopped" ELSE sigc
    /\ calls' = [made EXCEPT !.close = @ + Count(defers, "resp.Close"),
                              !.stopCatch = @ + Count(defers, "signal.StopCatch")]
    /\ defers' = <<>>

\* What RunAttach and its environment leave alone: its parameters, and the
\* components modelled on their own.
components == <<scan, dmx, plug, call>>
inputs == <<opts, configKeys, outIsTerminal, ctrConfig, components>>
envVars == <<ctrState, resultC, errC, cancelled, connEv, detached, pendingSigs>>

\* RunAttach going on to the inspection without the wait request.
RunAttach_Wait_NotRequested ==
    /\ pc = "start"
    /\ pc' = "inspect1"
    /\ UNCHANGED <<inputs, envVars, waitReq, calls, c, options, inStream, sigc,
                   defers, conn, streamer, streamErr, resizes, errOut, hist, outcome>>

\* resultC, errC := apiClient.ContainerWait(waitCtx, containerID, "")
RunAttach_Wait ==
    /\ pc = "start"
    /\ waitReq' = TRUE
    /\ calls' = [calls EXCEPT !.wait = @ + 1]
    /\ pc' = "inspect1"
    /\ UNCHANGED <<inputs, envVars, c, options, inStream, sigc, defers, conn,
                   streamer, streamErr, resizes, errOut, hist, outcome>>

\* c, err := inspectContainerAndCheckState(...); if err != nil { return err }
RunAttach_Inspect1 ==
    /\ pc = "inspect1"
    /\ \E r \in ContainerInspect :
        LET err == inspectContainerAndCheckState(r)
            made == [calls EXCEPT !.inspect = @ + 1]
        IN  /\ hist' = [hist EXCEPT !.obs1 = r]
            /\ IF err # Nil
               THEN Return(err, made) /\ UNCHANGED c
               ELSE /\ c' = r
                    /\ pc' = "setup"
                    /\ calls' = made
                    /\ UNCHANGED <<sigc, defers, conn, outcome>>
    /\ UNCHANGED <<inputs, envVars, waitReq, options, inStream, streamer,
                   streamErr, resizes, errOut>>

\* CheckTty, detachKeys, options, in
RunAttach_Setup ==
    /\ pc = "setup"
    /\ \E err \in CheckTty(~opts.NoStdin, c.Config.Tty) :
        IF err # Nil
        THEN Return(err, calls) /\ UNCHANGED <<options, inStream>>
        ELSE /\ options' = AttachOptionsOf(opts, c.Config, configKeys)
             /\ inStream' = IF options'.Stdin THEN "stdin" ELSE "nil"
             /\ pc' = "signals"
             /\ UNCHANGED <<sigc, defers, conn, calls, outcome>>
    /\ UNCHANGED <<inputs, envVars, waitReq, c, streamer, streamErr, resizes,
                   errOut, hist>>

\* The subscription made without deferring its release.
RunAttach_Signals_NoDefer ==
    /\ pc = "signals"
    /\ IF ProxySignals(opts, c.Config)
       THEN /\ sigc' = "open"
            /\ calls' = [calls EXCEPT !.notify = @ + 1]
       ELSE UNCHANGED <<sigc, calls>>
    /\ pc' = "attach"
    /\ UNCHANGED <<inputs, envVars, waitReq, c, options, inStream, conn, defers,
                   streamer, streamErr, resizes, errOut, hist, outcome>>

\* if opts.Proxy && !c.Config.Tty { sigc := notifyAllSignals(); go ForwardAllSignals; defer StopCatch }
RunAttach_Signals ==
    /\ pc = "signals"
    /\ IF ProxySignals(opts, c.Config)
       THEN /\ sigc' = "open"
            /\ calls' = [calls EXCEPT !.notify = @ + 1]
            /\ defers' = Append(defers, "signal.StopCatch")
       ELSE UNCHANGED <<sigc, calls, defers>>
    /\ pc' = "attach"
    /\ UNCHANGED <<inputs, envVars, waitReq, c, options, inStream, conn,
                   streamer, streamErr, resizes, errOut, hist, outcome>>

\* The attach made without deferring the connection's close.
RunAttach_Attach_NoDefer ==
    /\ pc = "attach"
    /\ \E err \in ContainerAttach :
        LET made == [calls EXCEPT !.attach = @ + 1]
        IN  /\ hist' = [hist EXCEPT !.attachErr = err]
            /\ IF err # Nil
               THEN Return(err, made)
               ELSE
                 /\ conn' = "open"
                 /\ calls' = made
                 /\ pc' = "inspect2"
                 /\ UNCHANGED <<sigc, defers, outcome>>
    /\ UNCHANGED <<inputs, envVars, waitReq, c, options, inStream, streamer,
                   streamErr, resizes, errOut>>

\* resp, errAttach := apiClient.ContainerAttach(...); defer resp.Close()
RunAttach_Attach ==
    /\ pc = "attach"
    /\ \E err \in ContainerAttach :
        LET made == [calls EXCEPT !.attach = @ + 1]
        IN  /\ hist' = [hist EXCEPT !.attachErr = err]
            /\ IF err # Nil
               THEN Return(err, made)
               ELSE
                 /\ conn' = "open"
                 /\ defers' = Append(defers, "resp.Close")
                 /\ calls' = made
                 /\ pc' = "inspect2"
                 /\ UNCHANGED <<sigc, outcome>>
    /\ UNCHANGED <<inputs, envVars, waitReq, c, options, inStream, streamer,
                   streamErr, resizes, errOut>>

\* The second inspection made, its verdict ignored.
RunAttach_Inspect2_NoRecheck ==
    /\ pc = "inspect2"
    /\ \E r \in ContainerInspect :
        /\ hist' = [hist EXCEPT !.obs2 = r]
        /\ pc' = "resize"
        /\ calls' = [calls EXCEPT !.inspect = @ + 1]
    /\ UNCHANGED <<inputs, envVars, waitReq, c, options, inStream, streamer,
                   streamErr, resizes, errOut, sigc,
                   defers, conn, outcome>>

\* _, err = inspectContainerAndCheckState(...); if err != nil { return err }
RunAttach_Inspect2 ==
    /\ pc = "inspect2"
    /\ \E r \in ContainerInspect :
        LET err == inspectContainerAndCheckState(r)
            made == [calls EXCEPT !.inspect = @ + 1]
        IN  /\ hist' = [hist EXCEPT !.obs2 = r]
            /\ IF err # Nil
               THEN Return(err, made)
               ELSE /\ pc' = "resize"
                    /\ calls' = made
                    /\ UNCHANGED <<sigc, defers, conn, outcome>>
    /\ UNCHANGED <<inputs, envVars, waitReq, c, options, inStream, streamer,
                   streamErr, resizes, errOut>>

\* The resize step returning the error of a failed request.
RunAttach_Resize_ReturnsError ==
    /\ pc = "resize"
    /\ IF NeedsResize(c.Config, outIsTerminal)
       THEN LET reqs == resizeTTY(GetTtySize)
            IN  \E oks \in [DOMAIN reqs -> BOOLEAN] :
                    LET made == [i \in DOMAIN reqs |->
                                    [size |-> reqs[i].size, by |-> reqs[i].by, ok |-> oks[i]]]
                    IN  /\ resizes' = resizes \o made
                        /\ errOut' = errOut \o initTtySizeLines(made)
                        /\ IF \E i \in DOMAIN oks : ~oks[i]
                           THEN Return(ErrorsNew("resize: connection refused"), calls)
                           ELSE /\ pc' = "stream"
                                /\ UNCHANGED <<sigc, defers, conn, calls, outcome>>
       ELSE /\ pc' = "stream"
            /\ UNCHANGED <<resizes, errOut, sigc, defers, conn, calls, outcome>>
    /\ UNCHANGED <<inputs, envVars, waitReq, c, options, inStream, streamer,
                   streamErr, hist>>

\* if c.Config.Tty && dockerCLI.Out().IsTerminal() { resizeTTY(...) }
\* Each request succeeds or fails; resizeTTY drops the perturbed request's error
\* and only logs MonitorTtySize's.
RunAttach_Resize ==
    /\ pc = "resize"
    /\ IF NeedsResize(c.Config, outIsTerminal)
       THEN LET reqs == resizeTTY(GetTtySize)
            IN  \E oks \in [DOMAIN reqs -> BOOLEAN] :
                    LET made == [i \in DOMAIN reqs |->
                                    [size |-> reqs[i].size, by |-> reqs[i].by, ok |-> oks[i]]]
                    IN  /\ resizes' = resizes \o made
                        /\ errOut' = errOut \o initTtySizeLines(made)
       ELSE UNCHANGED <<resizes, errOut>>
    /\ pc' = "stream"
    /\ UNCHANGED <<inputs, envVars, waitReq, c, options, inStream, sigc, defers,
                   conn, streamer, streamErr, calls, hist, outcome>>

\* streamer := hijackedIOStreamer{...}; streamer.stream(ctx) is entered
RunAttach_Stream ==
    /\ pc = "stream"
    /\ streamer' = [built |-> TRUE, inputStream |-> inStream, outputStream |-> "stdout",
                    errorStream |-> "stderr", tty |-> c.Config.Tty,
                    detachKeys |-> options.DetachKeys]
    /\ calls' = [calls EXCEPT !.stream = @ + 1]
    /\ pc' = "streaming"
    /\ UNCHANGED <<inputs, envVars, waitReq, c, options, inStream, sigc, defers,
                   conn, streamErr, resizes, errOut, hist, outcome>>

\* The copiers the streamer starts: the remote-to-local one always, the
\* local-to-remote one only with an input stream.
StartedCopiers(s) ==
    IF ~s.built THEN {}
    ELSE {"output"} \cup (IF s.inputStream # "nil" THEN {"input"} ELSE {})

\* The copiers still blocked on their I/O: the output copier until the
\* connection ends or is closed, the input copier until the detach sequence is
\* read or the connection is closed.
CopiersBlocked ==
    IF calls.stream = 0 \/ conn # "open" THEN {}
    ELSE {k \in StartedCopiers(streamer) :
            \/ k = "output" /\ connEv = "none"
            \/ k = "input" /\ ~detached}

\* hijackedIOStreamer.stream's select over the output copier, the detach
\* notification and ctx.Done(): one return value per event that has happened.
StreamResults ==
    (IF connEv = "eof" THEN {Nil} ELSE {})
        \cup (IF connEv = "ioerr" THEN {ErrStreamIO} ELSE {})
        \cup (IF detached THEN {ErrEscape} ELSE {})
        \cup (IF cancelled THEN {ContextCanceled} ELSE {})

\* streamer.stream(ctx) returns; a non-cancellation error is returned, else getExitStatus is next
RunAttach_StreamReturns ==
    /\ pc = "streaming"
    /\ \E err \in StreamResults :
        /\ streamErr' = err
        /\ IF ReturnsStreamError(err)
           THEN /\ Return(err, calls)
                /\ hist' = [hist EXCEPT !.via = "stream", !.copiersLeft = CopiersBlocked]
           ELSE /\ pc' = "exit"
                /\ UNCHANGED <<sigc, defers, conn, calls, outcome, hist>>
    /\ UNCHANGED <<inputs, envVars, waitReq, c, options, inStream, streamer,
                   resizes, errOut>>

\* return getExitStatus(errC, resultC)
RunAttach_GetExitStatus ==
    /\ pc = "exit"
    /\ \E err \in getExitStatus(errC, resultC) :
        Return(err, calls)
    /\ hist' = [hist EXCEPT !.via = "exit", !.copiersLeft = CopiersBlocked]
    /\ UNCHANGED <<inputs, envVars, waitReq, c, options, inStream, streamer,
                   streamErr, resizes, errOut>>

RunAttach ==
    \/ RunAttach_Wait
    \/ RunAttach_Inspect1
    \/ RunAttach_Setup
    \/ RunAttach_Signals
    \/ RunAttach_Attach
    \/ RunAttach_Inspect2
    \/ RunAttach_Resize
    \/ RunAttach_Stream
    \/ RunAttach_StreamReturns
    \/ RunAttach_GetExitStatus

----------------------------------------------------------------------------
\* A context derived from one that is cancelled as it is.
WithoutCancel_Inherits(done) == done

\* context.WithoutCancel(ctx): whether the derived context is done, given
\* whether ctx is. It never is.
WithoutCancel(done) == FALSE

\* The goroutine `go ForwardAllSignals(bgCtx, apiClient, containerID, sigc)`:
\* one signal-delivery request per signal received on sigc, for as long as
\* bgCtx is not done; a request that fails is logged and the loop goes on.
ForwardAllSignals ==
    /\ pendingSigs > 0
    /\ ~WithoutCancel(cancelled)
    /\ pendingSigs' = pendingSigs - 1
    /\ \E ok \in BOOLEAN :
        calls' = [calls EXCEPT !.kill = @ + 1,
                               !.killErr = IF ok THEN @ ELSE @ + 1]
    /\ UNCHANGED <<inputs, ctrState, resultC, errC, cancelled, connEv, detached,
                   pc, waitReq, c, options, inStream, sigc, defers, conn,
                   streamer, streamErr, resizes, errOut, hist, outcome>>

----------------------------------------------------------------------------
\* The environment.

sessionVars == <<pc, waitReq, c, options, inStream, sigc, defers, conn,
                 streamer, streamErr, resizes, errOut, calls, outcome>>

\* The container is paused, unpaused, or starts or ends a restart. Only an
\* inspection reads these flags, so the changes are modelled for as long as
\* RunAttach has an inspection to make; later ones would change nothing else.
ContainerChanges ==
    /\ pc \in {"start", "inspect1", "setup", "signals", "attach", "inspect2"}
    /\ ctrState.Running
    /\ \E s \in ContainerStates \ {ctrState, StExited} : ctrState' = s
    /\ UNCHANGED <<inputs, sessionVars, resultC, errC, cancelled, connEv,
                   detached, pendingSigs, hist>>

\* The remote process exits.
RemoteExits ==
    /\ pc # "done"
    /\ ctrState.Running
    /\ ctrState' = StExited
    /\ hist' = [hist EXCEPT !.exitedInSetup = waitReq /\ pc \in SetupPcs]
    /\ UNCHANGED <<inputs, sessionVars, resultC, errC, cancelled, connEv,
                   detached, pendingSigs>>

\* The daemon answers the wait request: the container is not running.
WaitDelivers ==
    /\ pc # "done"
    /\ waitReq /\ ~ctrState.Running
    /\ resultC = <<>> /\ errC = <<>>
    /\ \E r \in WaitResponses : resultC' = <<r>>
    /\ hist' = [hist EXCEPT !.resultBeforeClose = conn # "closed" /\ connEv = "none"]
    /\ UNCHANGED <<inputs, sessionVars, ctrState, errC, cancelled, connEv,
                   detached, pendingSigs>>

\* The wait request fails.
WaitFails ==
    /\ pc # "done"
    /\ waitReq
    /\ resultC = <<>> /\ errC = <<>>
    /\ \E e \in WaitErrors : errC' = <<e>>
    /\ UNCHANGED <<inputs, sessionVars, ctrState, resultC, cancelled, connEv,
                   detached, pendingSigs, hist>>

\* The external cancellation signal fires.
Cancel ==
    /\ pc # "done"
    /\ ~cancelled
    /\ cancelled' = TRUE
    /\ hist' = [hist EXCEPT !.cancelInStream = pc = "streaming"]
    /\ UNCHANGED <<inputs, sessionVars, ctrState, resultC, errC, connEv,
                   detached, pendingSigs>>

\* The remote end closes the hijacked connection, or the connection breaks.
ConnectionEnds ==
    /\ pc # "done"
    /\ conn = "open" /\ connEv = "none"
    /\ connEv' \in {"eof", "ioerr"}
    /\ UNCHANGED <<inputs, sessionVars, ctrState, resultC, errC, cancelled,
                   detached, pendingSigs, hist>>

\* The input copier reads the detach key sequence: only with an input stream,
\* a TTY and a non-empty sequence.
DetachEnabled(s) == s.built /\ s.inputStream # "nil" /\ s.tty /\ s.detachKeys # ""

DetachTyped ==
    /\ pc = "streaming"
    /\ DetachEnabled(streamer)
    /\ ~detached
    /\ detached' = TRUE
    /\ UNCHANGED <<inputs, sessionVars, ctrState, resultC, errC, cancelled,
                   connEv, pendingSigs, hist>>

\* The local terminal's size changes while MonitorTtySize is subscribed: the
\* monitor issues a resize request, and a failure is only logged.
WindowChanges ==
    /\ pc \in {"stream", "streaming", "exit"}
    /\ resizes # <<>>
    /\ Cardinality({i \in DOMAIN resizes : resizes[i].by = "SIGWINCH"}) < MaxWindowChanges
    /\ \E ok \in BOOLEAN :
        resizes' = Append(resizes, [size |-> GetTtySize, by |-> "SIGWINCH", ok |-> ok])
    /\ UNCHANGED <<inputs, envVars, pc, waitReq, c, options, inStream, sigc, defers,
                   conn, streamer, streamErr, errOut, calls, hist, outcome>>

\* An OS signal arrives at the client while the subscription is open.
SignalArrives ==
    /\ pc # "done"
    /\ sigc = "open"
    /\ hist.signals < MaxSignals
    /\ pendingSigs' = pendingSigs + 1
    /\ hist' = [hist EXCEPT !.signals = @ + 1]
    /\ UNCHANGED <<inputs, sessionVars, ctrState, resultC, errC, cancelled,
                   connEv, detached>>

Environment ==
    \/ ContainerChanges
    \/ RemoteExits
    \/ WaitDelivers
    \/ WaitFails
    \/ Cancel
    \/ ConnectionEnds
    \/ DetachTyped
    \/ WindowChanges
    \/ SignalArrives

Next == RunAttach \/ ForwardAllSignals \/ Environment

Spec == Init /\ [][Next]_vars

\* The sessions followed under fairness: those with the default detach keys.
\* The choice of keys changes no step's enabling but the detach's.
FairInit ==
    /\ Init
    /\ opts.DetachKeys = ""
    /\ configKeys = "ctrl-p,ctrl-q"

\* The session's own tasks are scheduled fairly, and the daemon answers a wait
\* request for a container that is not running. Nothing else is owed: the
\* remote process need not exit, the connection need not end.
FairSpec ==
    /\ FairInit
    /\ [][Next]_vars
    /\ WF_vars(RunAttach) /\ WF_vars(ForwardAllSignals) /\ WF_vars(WaitDelivers)

----------------------------------------------------------------------------
\* Properties of RunAttach.

\* The state error that belongs to a container state other than running.
StateErrorFor(st) ==
    IF st = StExited THEN ErrStopped
    ELSE IF st = StPaused THEN ErrPaused
    ELSE ErrRestarting

Done == pc = "done"
WaitReady == resultC # <<>> \/ errC # <<>>

\* C1: when the first inspection fails or reports the container not running,
\* paused or restarting, RunAttach has returned that inspect error unchanged,
\* or the state's own message, and has made no attach call, no signal
\* subscription, no signal-delivery or resize request, and never streamed.
C1_PreflightFailsFast ==
    LET o == hist.obs1
    IN  (o.err # Pending /\ (o.err # Nil \/ o.State # StRunning)) =>
            /\ Done
            /\ outcome = IF o.err # Nil THEN o.err ELSE StateErrorFor(o.State)
            /\ calls.inspect = 1
            /\ calls.attach = 0 /\ conn = "none"
            /\ calls.notify = 0 /\ sigc = "none" /\ calls.kill = 0
            /\ resizes = <<>>
            /\ calls.stream = 0 /\ ~streamer.built

C1_Witness ==
    /\ Done
    /\ hist.obs1.err = Nil /\ hist.obs1.State = StPaused
    /\ outcome = ErrPaused
    /\ calls.attach = 0

\* C2: when the container passed the first state check and the second check,
\* made after ContainerAttach succeeded, finds it stopped, paused or restarting,
\* RunAttach has returned that state's error, never streamed, issued no resize
\* request, and closed the hijacked connection.
C2_RevalidationClosesRace ==
    LET o == hist.obs2
    IN  (o.err = Nil /\ o.State # StRunning) =>
            /\ hist.obs1.err = Nil /\ hist.obs1.State = StRunning
            /\ hist.attachErr = Nil
            /\ Done
            /\ outcome = StateErrorFor(o.State)
            /\ calls.stream = 0 /\ ~streamer.built
            /\ resizes = <<>>
            /\ conn = "closed" /\ calls.close = 1

C2_Witness ==
    /\ Done
    /\ hist.obs1.State = StRunning /\ hist.obs1.err = Nil
    /\ hist.obs2.err = Nil /\ hist.obs2.State = StExited
    /\ outcome = ErrStopped
    /\ conn = "closed"

\* C3: what getExitStatus returns is decided by the channel that delivered: a
\* wait response with a recorded error gives an error with exactly that message,
\* whatever its status code; one with no recorded error gives a StatusError with
\* its non-zero code, or nil for code 0; a value on errC is returned as it is.
C3_ExitReconciliation ==
    (Done /\ hist.via = "exit") =>
        \/ /\ resultC # <<>> /\ errC = <<>>
           /\ LET r == resultC[1]
              IN  /\ r.Error # NoWaitError =>
                        outcome = [kind |-> "error", msg |-> r.Error, code |-> 0]
                  /\ (r.Error = NoWaitError /\ r.StatusCode # 0) =>
                        outcome = [kind |-> "status", msg |-> "", code |-> r.StatusCode]
                  /\ (r.Error = NoWaitError /\ r.StatusCode = 0) =>
                        outcome = [kind |-> "nil", msg |-> "", code |-> 0]
        \/ /\ errC # <<>> /\ resultC = <<>>
           /\ outcome = errC[1]

C3_Witness ==
    /\ Done /\ hist.via = "exit"
    /\ resultC # <<>>
    /\ resultC[1].Error # NoWaitError /\ resultC[1].StatusCode # 0
    /\ outcome = ErrorsNew(resultC[1].Error)

\* C4, as claimed (read in its favour: the session reached streaming and the
\* wait response records no error): once a non-zero status code was delivered
\* before the connection ended, RunAttach's result is a StatusError with that code.
C4_Original ==
    (/\ Done
     /\ calls.stream = 1
     /\ hist.resultBeforeClose
     /\ resultC # <<>>
     /\ resultC[1].Error = NoWaitError
     /\ resultC[1].StatusCode # 0) =>
        outcome = [kind |-> "status", msg |-> "", code |-> resultC[1].StatusCode]

\* C4, amended: the same, when the streamer returned nil or the cancellation
\* error; a streamer error other than cancellation is returned instead.
C4_ExitRace ==
    (/\ Done
     /\ calls.stream = 1
     /\ hist.resultBeforeClose
     /\ resultC # <<>>
     /\ resultC[1].Error = NoWaitError
     /\ resultC[1].StatusCode # 0) =>
        IF streamErr \in {Nil, ContextCanceled}
        THEN outcome = [kind |-> "status", msg |-> "", code |-> resultC[1].StatusCode]
        ELSE outcome = streamErr /\ outcome.kind = "error"

C4_Witness ==
    /\ Done
    /\ hist.resultBeforeClose
    /\ streamErr = Nil
    /\ resultC # <<>>
    /\ resultC[1].Error = NoWaitError
    /\ outcome = StatusError(MaxStatus)

\* C5, as claimed: the wait is requested first, and a remote process that exits
\* during setup (after the wait request, before streaming starts) is reported
\* with its own exit outcome.
C5_Original ==
    /\ calls.wait <= 1
    /\ (pc # "start") => (waitReq /\ calls.wait = 1)
    /\ (calls.inspect > 0 \/ calls.attach > 0 \/ calls.stream > 0 \/ conn # "none") =>
            (waitReq /\ calls.wait = 1)
    /\ (Done /\ hist.exitedInSetup) =>
            (resultC # <<>> /\ outcome = ExitStatusOf(resultC[1]))

\* C5, amended: the wait is requested first; a remote process that exits during
\* setup is reported with its own exit outcome only when both state checks had
\* passed before it exited and the streamer returned nil or the cancellation
\* error (a failed wait is then reported as the wait's error); one that exits
\* before a state check is reported by that check as a stopped container,
\* unless an inspect, TTY or attach error came first.
C5_WaitBeforeSetup ==
    /\ calls.wait <= 1
    /\ (pc # "start") => (waitReq /\ calls.wait = 1)
    /\ (calls.inspect > 0 \/ calls.attach > 0 \/ calls.stream > 0 \/ conn # "none") =>
            (waitReq /\ calls.wait = 1)
    /\ (Done /\ hist.exitedInSetup) =>
            \/ outcome \in InspectErrors \cup AttachErrors \cup {ErrNotATty}
            \/ /\ outcome = ErrStopped
               /\ \/ hist.obs1.err = Nil /\ hist.obs1.State = StExited
                  \/ hist.obs2.err = Nil /\ hist.obs2.State = StExited
            \/ /\ hist.obs2.err = Nil /\ hist.obs2.State = StRunning
               /\ \/ hist.via = "stream" /\ outcome = streamErr
                  \/ /\ hist.via = "exit"
                     /\ streamErr \in {Nil, ContextCanceled}
                     /\ \/ resultC # <<>> /\ outcome = ExitStatusOf(resultC[1])
                        \/ errC # <<>> /\ outcome = errC[1]

C5_Witness ==
    /\ Done /\ hist.exitedInSetup
    /\ hist.obs2.err = Nil /\ hist.obs2.State = StRunning
    /\ hist.via = "exit"
    /\ resultC # <<>>
    /\ outcome = StatusError(1)

C8_StreamErrorSurfaced ==
    /\ (streamErr \notin {Pending, Nil, ContextCanceled}) =>
            (Done /\ outcome = streamErr /\ hist.via = "stream")
    /\ (hist.attachErr \notin {Pending, Nil}) =>
            /\ Done
            /\ outcome = hist.attachErr
            /\ conn = "none"
            /\ calls.stream = 0 /\ resizes = <<>>

C8_Witness ==
    /\ Done
    /\ streamErr = ErrStreamIO
    /\ resultC # <<>> /\ resultC[1].StatusCode # 0
    /\ outcome = ErrStreamIO

\* C9: a session subscribes to OS signals, and signal-delivery requests are
\* made, only with proxying enabled and no TTY; a session that gets as far as
\* the attach call has subscribed exactly when proxying is enabled and there is
\* no TTY.
C9_ForwarderIffProxyNoTty ==
    /\ (calls.notify > 0 \/ sigc # "none" \/ pendingSigs > 0 \/ calls.kill > 0) =>
            (opts.Proxy /\ ~ctrConfig.Tty)
    /\ (pc \in {"attach", "inspect2", "resize", "stream", "streaming", "exit"}
            \/ calls.attach > 0) =>
            (calls.notify = 1 <=> (opts.Proxy /\ ~ctrConfig.Tty))

C9_Witness ==
    /\ opts.Proxy /\ ~ctrConfig.Tty
    /\ calls.notify = 1
    /\ calls.kill = 1
    /\ pc = "streaming"

\* C10: a session subscribes at most once; the subscription stays open until
\* RunAttach returns and is released exactly once when it returns.
C10_StopCatchOnce ==
    /\ calls.notify <= 1
    /\ calls.notify = 0 => (calls.stopCatch = 0 /\ sigc = "none")
    /\ calls.notify = 1 =>
            IF Done
            THEN calls.stopCatch = 1 /\ sigc = "stopped"
            ELSE calls.stopCatch = 0 /\ sigc = "open"

C10_Witness ==
    /\ Done
    /\ calls.notify = 1 /\ calls.stopCatch = 1
    /\ hist.attachErr \in AttachErrors

----------------------------------------------------------------------------
\* RunAttach is past its resize step.
PastResize == pc \in {"stream", "streaming", "exit"} \/ calls.stream > 0

\* The requests issued by resizeTTY itself, in order (not those of later window changes).
StartResizes == SelectSeq(resizes, LAMBDA r : r.by # "SIGWINCH")

\* C11: with a TTY and an interactive local output of size (h, w), resizeTTY
\* issues exactly two resize requests, (h+1, w+1) and then (h, w), both before
\* streaming begins and before any request of a later window change; without
\* a TTY or with a non-terminal output, no resize request is ever issued.
C11_StartupResize ==
    /\ ~PastResize => resizes = <<>>
    /\ (PastResize /\ ctrConfig.Tty /\ outIsTerminal) =>
            /\ Len(StartResizes) = 2
            /\ Len(resizes) >= 2
            /\ resizes[1].by # "SIGWINCH" /\ resizes[2].by # "SIGWINCH"
            /\ resizes[1].size = <<GetTtySize[1] + 1, GetTtySize[2] + 1>>
            /\ resizes[2].size = GetTtySize
    /\ ~(ctrConfig.Tty /\ outIsTerminal) => resizes = <<>>

C11_Witness ==
    /\ pc = "stream" /\ calls.stream = 0
    /\ ctrConfig.Tty /\ outIsTerminal
    /\ Len(resizes) = 2
    /\ resizes[1].size = <<25, 81>> /\ resizes[2].size = <<24, 80>>

\* C12: a failing resize request (the perturbed one, the true-size one or one of
\* a later window change) never ends the session and never shows in RunAttach's
\* result: the streamer is still entered, and the result is the streamer's error
\* or the exit status as without the failure; the only thing written to the
\* local error stream is the line 'failed to resize tty, using default size',
\* once, exactly when the initial sizing's request failed.
C12_ResizeFailuresAbsorbed ==
    /\ (pc = "stream" /\ resizes # <<>>) => ENABLED RunAttach_Stream
    /\ (Done /\ resizes # <<>>) =>
            /\ calls.stream = 1
            /\ hist.via \in {"stream", "exit"}
            /\ hist.via = "stream" => (outcome = streamErr /\ ReturnsStreamError(streamErr))
            /\ hist.via = "exit" => outcome \in getExitStatus(errC, resultC)
    /\ errOut = IF \E i \in DOMAIN resizes : resizes[i].by = "initTtySize" /\ ~resizes[i].ok
                THEN <<ResizeFailedLine>>
                ELSE <<>>

C12_Witness ==
    /\ Done /\ outcome = Nil
    /\ Len(resizes) = 3
    /\ \A i \in DOMAIN resizes : ~resizes[i].ok
    /\ errOut = <<ResizeFailedLine>>

C19_InputAttachment ==
    LET wanted == ~opts.NoStdin /\ ctrConfig.OpenStdin
    IN  /\ options # NoOptions =>
                /\ options.Stdin <=> wanted
                /\ inStream = (IF wanted THEN "stdin" ELSE "nil")
                /\ options.Stream /\ options.Stdout /\ options.Stderr
        /\ options = NoOptions => inStream = "nil"
        /\ streamer.built =>
                /\ streamer.inputStream = (IF wanted THEN "stdin" ELSE "nil")
                /\ "input" \in StartedCopiers(streamer) <=> wanted
                /\ "output" \in StartedCopiers(streamer)
                /\ streamer.outputStream = "stdout" /\ streamer.errorStream = "stderr"

C19_Witness ==
    /\ streamer.built
    /\ ~opts.NoStdin /\ ctrConfig.OpenStdin
    /\ options.Stdin /\ streamer.inputStream = "stdin"
    /\ StartedCopiers(streamer) = {"output", "input"}

\* C21: the detach key sequence of the session is the command-line override
\* when that is non-empty and the configured default otherwise, and the attach
\* request and the streamer carry that same value.
C21_DetachKeySelection ==
    LET chosen == IF opts.DetachKeys # "" THEN opts.DetachKeys ELSE configKeys
    IN  /\ options # NoOptions => options.DetachKeys = chosen
        /\ streamer.built => /\ streamer.detachKeys = chosen
                              /\ streamer.detachKeys = options.DetachKeys

C21_Witness ==
    /\ streamer.built
    /\ opts.DetachKeys = "ctrl-x" /\ configKeys = "ctrl-p,ctrl-q"
    /\ options.DetachKeys = "ctrl-x" /\ streamer.detachKeys = "ctrl-x"

----------------------------------------------------------------------------
\* The detach scanner interposed on the local-to-remote copier, one byte at a
\* time. scan.read is the input consumed so far, scan.idx the match progress,
\* scan.sent the bytes forwarded to the remote side; the bytes of a partial
\* match are held back until the match completes or breaks.

Bytes == 1..MaxByte
KeySequences == UNION {[1..n -> Bytes] : n \in 0..MaxKeys}

\* No session: the attach variables at rest while a component runs on its own.
NoSession ==
    /\ SessionInit
    /\ opts = [NoStdin |-> TRUE, Proxy |-> FALSE, DetachKeys |-> ""]
    /\ configKeys = ""
    /\ ~outIsTerminal
    /\ ctrConfig = [Tty |-> FALSE, OpenStdin |-> FALSE]
    /\ ctrState = StExited

session == <<opts, configKeys, outIsTerminal, ctrConfig, envVars, sessionVars, hist>>

\* Scanning is on only with a TTY and a non-empty sequence.
ScannerEnabled(keys, tty) == tty /\ keys # <<>>

\* The scanner releasing the held bytes of the sequence when it completes.
ScanStep_ForwardsSequence(keys, idx, b) ==
    IF b = keys[idx + 1]
    THEN IF idx + 1 = Len(keys)
         THEN [idx |-> 0, detach |-> TRUE, out |-> SubSeq(keys, 1, idx)]
         ELSE [idx |-> idx + 1, detach |-> FALSE, out |-> <<>>]
    ELSE IF b = keys[1]
         THEN [idx |-> 1, detach |-> FALSE, out |-> SubSeq(keys, 1, idx)]
         ELSE [idx |-> 0, detach |-> FALSE, out |-> SubSeq(keys, 1, idx) \o <<b>>]

\* The scanner without the re-test: a mismatch resets the progress and forwards the byte.
ScanStep_NoRetest(keys, idx, b) ==
    IF b = keys[idx + 1]
    THEN IF idx + 1 = Len(keys)
         THEN [idx |-> 0, detach |-> TRUE, out |-> <<>>]
         ELSE [idx |-> idx + 1, detach |-> FALSE, out |-> <<>>]
    ELSE [idx |-> 0, detach |-> FALSE, out |-> SubSeq(keys, 1, idx) \o <<b>>]

\* One byte through the scanner: the new progress, the detach flag, and the
\* bytes released to the remote side. On a match the progress advances; on a
\* mismatch it is reset to zero and the byte is tested again against index 0.
ScanStep(keys, idx, b) ==
    IF b = keys[idx + 1]
    THEN IF idx + 1 = Len(keys)
         THEN [idx |-> 0, detach |-> TRUE, out |-> <<>>]
         ELSE [idx |-> idx + 1, detach |-> FALSE, out |-> <<>>]
    ELSE IF b = keys[1]
         THEN [idx |-> 1, detach |-> FALSE, out |-> SubSeq(keys, 1, idx)]
         ELSE [idx |-> 0, detach |-> FALSE, out |-> SubSeq(keys, 1, idx) \o <<b>>]

\* The pass-through replaced by a scan whatever the TTY flag and the sequence.
ScanRead_AlwaysScans ==
    /\ scan.reports = 0
    /\ Len(scan.read) < MaxInput
    /\ \E b \in Bytes :
        IF scan.keys # <<>>
        THEN LET r == ScanStep(scan.keys, scan.idx, b)
             IN  scan' = [scan EXCEPT !.read = Append(@, b),
                                      !.idx = r.idx,
                                      !.sent = @ \o r.out,
                                      !.reports = IF r.detach THEN @ + 1 ELSE @,
                                      !.at = IF r.detach THEN Len(scan.read) + 1 ELSE @]
        ELSE scan' = [scan EXCEPT !.read = Append(@, b)]
    /\ UNCHANGED <<session, dmx, plug, call>>

\* The local-to-remote copier reads one byte: through the scanner when it is
\* enabled, straight to the remote side otherwise. After a detach nothing more
\* is read.
ScanRead ==
    /\ scan.reports = 0
    /\ Len(scan.read) < MaxInput
    /\ \E b \in Bytes :
        IF ScannerEnabled(scan.keys, scan.tty)
        THEN LET r == ScanStep(scan.keys, scan.idx, b)
             IN  scan' = [scan EXCEPT !.read = Append(@, b),
                                      !.idx = r.idx,
                                      !.sent = @ \o r.out,
                                      !.reports = IF r.detach THEN @ + 1 ELSE @,
                                      !.at = IF r.detach THEN Len(scan.read) + 1 ELSE @]
        ELSE scan' = [scan EXCEPT !.read = Append(@, b), !.sent = Append(@, b)]
    /\ UNCHANGED <<session, dmx, plug, call>>

ScanInit ==
    /\ NoSession
    /\ \E keys \in KeySequences, tty \in BOOLEAN :
        scan = [NoScan EXCEPT !.keys = keys, !.tty = tty]
    /\ dmx = NoDemux
    /\ plug = NoPlugin
    /\ call = NoCall

ScanNext == ScanRead

ScanSpec == ScanInit /\ [][ScanNext]_vars

\* The positions at which the sequence keys starts in the input read so far.
Occurrences(keys, read) ==
    {i \in 1..(Len(read) - Len(keys) + 1) : SubSeq(read, i, i + Len(keys) - 1) = keys}

\* The first byte of the sequence occurs nowhere else in it.
FirstByteOnce(keys) == \A i \in 2..Len(keys) : keys[i] # keys[1]

Min(S) == CHOOSE x \in S : \A y \in S : x <= y

\* What C13 asks of a scanning session, for the sequence and the input read so far.
DetachAtFirstOccurrence ==
    LET occ == Occurrences(scan.keys, scan.read)
    IN  /\ scan.reports <= 1
        /\ occ # {} =>
                /\ scan.reports = 1
                /\ scan.at = Min(occ) + Len(scan.keys) - 1
                /\ scan.at = Len(scan.read)
                /\ scan.sent = SubSeq(scan.read, 1, Min(occ) - 1)
        /\ occ = {} =>
                /\ scan.reports = 0
                /\ scan.sent \o SubSeq(scan.keys, 1, scan.idx) = scan.read

RestartedSequence(keys, read) ==
    \E k \in 1..(Len(keys) - 1) : read = SubSeq(keys, 1, k) \o keys

\* A detachment is reported only at a byte that completes the sequence.
DetachOnlyOnSequence ==
    scan.reports > 0 =>
        /\ scan.at = Len(scan.read)
        /\ Len(scan.read) >= Len(scan.keys)
        /\ SubSeq(scan.read, Len(scan.read) - Len(scan.keys) + 1, Len(scan.read)) = scan.keys

----------------------------------------------------------------------------
\* The remote-to-local copier. Without a TTY the remote side writes frames, a
\* stream tag and a length followed by the payload, and the copier delivers
\* each payload to the local stream its tag names; with a TTY the bytes are
\* written bare and go to the one local output stream. dmx.wire is what has
\* arrived on the connection, dmx.pos how much of it the copier has consumed.

\* The tag a frame carries for a local stream.
StreamTag(name) == IF name = "stdout" THEN 1 ELSE 2
Payloads == UNION {[1..n -> Bytes] : n \in 0..MaxPayload}

\* A frame as it travels on the connection.
Frame(tag, payload) == <<tag, Len(payload)>> \o payload

\* The copier delivering every payload to the local output stream.
DemuxStep_IgnoresTag(d, b) ==
    IF d.tty THEN [d EXCEPT !.pos = @ + 1, !.out = Append(@, b)]
    ELSE IF d.mode = "tag" THEN [d EXCEPT !.pos = @ + 1, !.cur = b, !.mode = "len"]
    ELSE IF d.mode = "len"
         THEN [d EXCEPT !.pos = @ + 1, !.left = b, !.mode = IF b = 0 THEN "tag" ELSE "payload"]
    ELSE [d EXCEPT !.pos = @ + 1,
                   !.out = Append(@, b),
                   !.left = @ - 1,
                   !.mode = IF d.left = 1 THEN "tag" ELSE "payload"]

\* The copier consuming one byte of the connection.
DemuxStep(d, b) ==
    IF d.tty THEN [d EXCEPT !.pos = @ + 1, !.out = Append(@, b)]
    ELSE IF d.mode = "tag" THEN [d EXCEPT !.pos = @ + 1, !.cur = b, !.mode = "len"]
    ELSE IF d.mode = "len"
         THEN [d EXCEPT !.pos = @ + 1, !.left = b, !.mode = IF b = 0 THEN "tag" ELSE "payload"]
    ELSE [d EXCEPT !.pos = @ + 1,
                   !.out = IF d.cur = StreamTag("stdout") THEN Append(@, b) ELSE @,
                   !.err = IF d.cur = StreamTag("stderr") THEN Append(@, b) ELSE @,
                   !.left = @ - 1,
                   !.mode = IF d.left = 1 THEN "tag" ELSE "payload"]

\* The remote side writes one chunk: a tagged frame without a TTY, bare bytes with one.
RemoteWrites ==
    /\ Len(dmx.frames) < MaxFrames
    /\ \E tag \in {StreamTag("stdout"), StreamTag("stderr")}, payload \in Payloads :
        /\ dmx.tty => tag = StreamTag("stdout")
        /\ dmx' = [dmx EXCEPT !.frames = Append(@, [tag |-> tag, payload |-> payload]),
                              !.wire = @ \o (IF dmx.tty THEN payload ELSE Frame(tag, payload))]
    /\ UNCHANGED <<session, scan, plug, call>>

\* The copier reads the next byte that has arrived.
CopierReads ==
    /\ dmx.pos < Len(dmx.wire)
    /\ dmx' = DemuxStep(dmx, dmx.wire[dmx.pos + 1])
    /\ UNCHANGED <<session, scan, plug, call>>

DemuxInit ==
    /\ NoSession
    /\ \E tty \in BOOLEAN : dmx = [NoDemux EXCEPT !.tty = tty]
    /\ scan = NoScan
    /\ plug = NoPlugin
    /\ call = NoCall

DemuxNext == RemoteWrites \/ CopierReads

DemuxSpec == DemuxInit /\ [][DemuxNext]_vars

\* The payload bytes the frames written so far carry for one stream, in order.
RECURSIVE PayloadOf(_, _)
PayloadOf(frames, tag) ==
    IF frames = <<>> THEN <<>>
    ELSE (IF Head(frames).tag = tag THEN Head(frames).payload ELSE <<>>)
            \o PayloadOf(Tail(frames), tag)

IsPrefix(a, b) == Len(a) <= Len(b) /\ a = SubSeq(b, 1, Len(a))

\* C16: without a TTY, the copier delivers to each local stream a prefix of
\* the payload bytes the frames carry for it, in arrival order, and exactly
\* those bytes once it has consumed all that arrived (nothing lost, duplicated,
\* reordered or sent to the other stream); with a TTY, the bytes consumed
\* are the bytes delivered, unchanged, to the one local output stream.
C16_Demultiplexing ==
    /\ ~dmx.tty =>
            /\ IsPrefix(dmx.out, PayloadOf(dmx.frames, StreamTag("stdout")))
            /\ IsPrefix(dmx.err, PayloadOf(dmx.frames, StreamTag("stderr")))
            /\ dmx.pos = Len(dmx.wire) =>
                    /\ dmx.out = PayloadOf(dmx.frames, StreamTag("stdout"))
                    /\ dmx.err = PayloadOf(dmx.frames, StreamTag("stderr"))
    /\ dmx.tty =>
            /\ dmx.out = SubSeq(dmx.wire, 1, dmx.pos)
            /\ dmx.err = <<>>

C16_Witness ==
    /\ ~dmx.tty
    /\ dmx.frames = <<[tag |-> StreamTag("stderr"), payload |-> <<1, 2>>], [tag |-> StreamTag("stdout"), payload |-> <<2, 1>>]>>
    /\ dmx.pos = Len(dmx.wire)
    /\ dmx.out = <<2, 1>> /\ dmx.err = <<1, 2>>

----------------------------------------------------------------------------
\* `docker plugin enable`, as its tests drive it: the command is given its
\* arguments and its --timeout flag, and a client whose PluginEnable returns
\* plug.enableErr. plug.requests are the enable requests made, plug.out what
\* was written to standard output, plug.err the error the command returned.

PluginNames == {"plugin-foo", "too-many", "arguments"}
PluginArgs == UNION {[1..n -> PluginNames] : n \in 0..MaxArgs}
ErrEnable == ErrorsNew("failed to enable plugin")

\* The argument validation accepting any number of arguments but zero.
ExactArgs_AtLeast(n, args) ==
    IF Len(args) >= n THEN Nil ELSE ErrorsNew("requires 1 argument")

\* The command's argument validation: exactly n arguments.
ExactArgs(n, args) ==
    IF Len(args) = n THEN Nil ELSE ErrorsNew("requires 1 argument")

\* The command is invoked: its arguments are validated before it runs.
Enable_Args ==
    /\ plug.pc = "args"
    /\ LET err == ExactArgs(1, plug.args)
       IN  plug' = IF err # Nil
                   THEN [plug EXCEPT !.pc = "done", !.err = err]
                   ELSE [plug EXCEPT !.pc = "run"]
    /\ UNCHANGED <<session, scan, dmx, call>>

\* The command runs: a negative timeout is refused, then the enable request
\* is made and the plugin's name is printed if it succeeded.
Enable_Run ==
    /\ plug.pc = "run"
    /\ plug' =
        IF plug.timeout < 0
        THEN [plug EXCEPT !.pc = "done",
                          !.err = ErrorsNew("negative timeout " \o ToString(plug.timeout) \o " is invalid")]
        ELSE IF plug.enableErr # Nil
        THEN [plug EXCEPT !.pc = "done",
                          !.requests = Append(@, plug.args[1]),
                          !.err = plug.enableErr]
        ELSE [plug EXCEPT !.pc = "done",
                          !.requests = Append(@, plug.args[1]),
                          !.out = plug.args[1] \o "\n",
                          !.err = Nil]
    /\ UNCHANGED <<session, scan, dmx, call>>

PluginInit ==
    /\ NoSession
    /\ \E args \in PluginArgs, t \in (0 - MaxTimeout)..MaxTimeout, e \in {Nil, ErrEnable} :
        plug = [NoPlugin EXCEPT !.pc = "args", !.args = args, !.timeout = t, !.enableErr = e]
    /\ scan = NoScan
    /\ dmx = NoDemux
    /\ call = NoCall

PluginNext == Enable_Args \/ Enable_Run

PluginSpec == PluginInit /\ [][PluginNext]_vars

\* C20: `docker plugin enable` with zero or more than one argument fails with
\* 'requires 1 argument' and makes no enable request; with one argument and a
\* negative timeout it fails with 'negative timeout <t> is invalid' ('negative
\* timeout -1 is invalid' for -1); otherwise it makes one enable request for
\* the named plugin, returns that request's error if it fails, and on success
\* writes exactly the plugin's name and a newline to standard output. Nothing
\* is written to standard output in any failing case.
C20_PluginEnable ==
    plug.pc = "done" =>
        IF Len(plug.args) # 1
        THEN plug.err = ErrorsNew("requires 1 argument") /\ plug.requests = <<>> /\ plug.out = ""
        ELSE IF plug.timeout < 0
        THEN /\ plug.err.kind = "error" /\ plug.out = ""
             /\ plug.timeout = -1 => plug.err.msg = "negative timeout -1 is invalid"
             /\ plug.err.msg = "negative timeout " \o ToString(plug.timeout) \o " is invalid"
        ELSE /\ plug.requests = <<plug.args[1]>>
             /\ plug.err = plug.enableErr
             /\ plug.out = (IF plug.enableErr = Nil THEN plug.args[1] \o "\n" ELSE "")

C20_Witness ==
    /\ plug.pc = "done"
    /\ plug.args = <<"plugin-foo">> /\ plug.timeout = 0
    /\ plug.err = Nil
    /\ plug.out = "plugin-foo\n"
    /\ plug.requests = <<"plugin-foo">>

----------------------------------------------------------------------------
\* The helpers of `docker service update`, `docker container update` and the
\* client options, each modelled as one call: `call` holds the inputs, the
\* position ("call" before, "returned" or "panicked" after) and the results.
idle == <<session, scan, dmx, plug>>

Idle ==
    /\ NoSession
    /\ scan = NoScan
    /\ dmx = NoDemux
    /\ plug = NoPlugin

\* Sequences over S of at most n elements.
SeqUpTo(S, n) == UNION {[1..k -> S] : k \in 0..n}

----------------------------------------------------------------------------
\* updateHosts. A host entry 'IP canonical_hostname [alias ...]' is the
\* sequence of its fields, as strings.Fields splits it and fmt.Sprintf with
\* strings.Join writes it back; a hostMapping is [IPAddr, Host], IPAddr "" when
\* the flag's value has no ':'; call.add is `values`, the added hosts already
\* in that format.
MaxHosts == 2
MaxHostNames == 3
MaxHostRemove == 2

HostIPs == {"10.0.0.1", "10.0.0.2"}
HostNames == {"host1", "host2"}
HostEntries == {<<ip>> \o names : ip \in HostIPs, names \in SeqUpTo(HostNames, MaxHostNames) \ {<<>>}}
HostMappings == [IPAddr : HostIPs \cup {""}, Host : HostNames]

\* A slice of host names: its backing array and its length.
HostSlice(arr, len) == [arr |-> arr, len |-> len, panic |-> FALSE]

\* append(hostNames[:i], hostNames[i+1:]...) on the backing array: the
\* elements after position i move down by one; the last one stays where it was.
RemoveAt(arr, len, i) ==
    [j \in DOMAIN arr |-> IF j >= i /\ j < len THEN arr[j + 1] ELSE arr[j]]

\* for i, h := range hostNames { if h == rm.Host { hostNames = append(...) } }
\* The range runs over the n elements the slice had when the loop began and
\* reads each from the backing array at the time of its iteration;
\* hostNames[i+1:] panics once i+1 exceeds the current length.
RECURSIVE rangeHostNames(_, _, _, _)
rangeHostNames(hostNames, i, n, host) ==
    IF i > n THEN hostNames
    ELSE IF hostNames.arr[i] # host THEN rangeHostNames(hostNames, i + 1, n, host)
    ELSE IF i > hostNames.len THEN [hostNames EXCEPT !.panic = TRUE]
    ELSE rangeHostNames(HostSlice(RemoveAt(hostNames.arr, hostNames.len, i), hostNames.len - 1),
                        i + 1, n, host)

\* Every mapping applying to the entry, whatever its IP address.
RemoveMatches_AnyIP(rm, ip) == TRUE

\* if rm.IPAddr != "" && rm.IPAddr != ip { continue }
RemoveMatches(rm, ip) == ~(rm.IPAddr # "" /\ rm.IPAddr # ip)

\* for _, rm := range toRemove { ... } on one entry's host names
RECURSIVE removeFromEntry(_, _, _)
removeFromEntry(hostNames, ip, toRemove) ==
    IF toRemove = <<>> \/ hostNames.panic THEN hostNames
    ELSE LET rm == Head(toRemove)
         IN  removeFromEntry(IF RemoveMatches(rm, ip)
                                THEN rangeHostNames(hostNames, 1, hostNames.len, rm.Host)
                                ELSE hostNames,
                             ip, Tail(toRemove))

\* for _, entry := range *hosts { ... }: newHosts, or a panic on the way
RECURSIVE keepHosts(_, _)
keepHosts(hosts, toRemove) ==
    IF hosts = <<>> THEN [newHosts |-> <<>>, panic |-> FALSE]
    ELSE LET parts == Head(hosts)
             ip == Head(parts)
             hostNames == removeFromEntry(HostSlice(Tail(parts), Len(parts) - 1), ip, toRemove)
             rest == keepHosts(Tail(hosts), toRemove)
         IN  IF hostNames.panic \/ rest.panic THEN [newHosts |-> <<>>, panic |-> TRUE]
             ELSE IF hostNames.len > 0
                  THEN [rest EXCEPT !.newHosts =
                            <<(<<ip>> \o SubSeq(hostNames.arr, 1, hostNames.len))>> \o @]
                  ELSE rest

\* removeDuplicates: the first occurrence of every entry, in order
RECURSIVE removeDuplicates(_)
removeDuplicates(entries) ==
    IF entries = <<>> THEN <<>>
    ELSE LET front == removeDuplicates(SubSeq(entries, 1, Len(entries) - 1))
             v == entries[Len(entries)]
         IN  IF \E k \in DOMAIN front : front[k] = v THEN front ELSE Append(front, v)

\* updateHosts(flags, &cspec.Hosts), called when either flag was changed
updateHosts ==
    /\ call.fn = "updateHosts" /\ call.pc = "call"
    /\ LET kept == keepHosts(call.hosts, call.remove)
       IN  call' = IF kept.panic
                   THEN [call EXCEPT !.pc = "panicked"]
                   ELSE [call EXCEPT !.pc = "returned",
                                     !.newHosts = kept.newHosts,
                                     !.result = removeDuplicates(kept.newHosts \o call.add)]
    /\ UNCHANGED idle

HostsInit ==
    /\ Idle
    /\ \E hosts \in SeqUpTo(HostEntries, MaxHosts), remove \in SeqUpTo(HostMappings, MaxHostRemove),
          add \in SeqUpTo({<<ip, h>> : ip \in HostIPs, h \in HostNames}, 1) :
        /\ remove # <<>> \/ add # <<>>
        /\ call = [fn |-> "updateHosts", pc |-> "call", hosts |-> hosts, remove |-> remove,
                   add |-> add, newHosts |-> <<>>, result |-> <<>>]

HostsNext == updateHosts

HostsSpec == HostsInit /\ [][HostsNext]_vars

\* The host names of an entry.
NamesOf(entry) == {entry[k] : k \in 2..Len(entry)}

\* C22: a host name given to the remove flag without an IP address is removed
\* from every entry it is part of, so that no entry carried over contains it,
\* an entry left without host names is dropped, and the call completes without
\* failure, whatever the entries (also with a host name listed twice).
C22_RemovalByHostName ==
    (call.fn = "updateHosts" /\ call.pc # "call") =>
        /\ call.pc = "returned"
        /\ \A k \in DOMAIN call.newHosts :
              /\ Len(call.newHosts[k]) >= 2
              /\ \A r \in DOMAIN call.remove :
                    call.remove[r].IPAddr = "" => call.remove[r].Host \notin NamesOf(call.newHosts[k])

\* No mapping of the remove flag applies to the entry: each names another IP.
Untouched(entry) ==
    \A r \in DOMAIN call.remove :
        call.remove[r].IPAddr # "" /\ call.remove[r].IPAddr # entry[1]

\* The entries carried over are entries of the old list, in their old order,
\* each with its IP and with host names it had; the untouched ones are all
\* there, as they were.
CarriedInOrder ==
    /\ SelectSeq(call.newHosts, Untouched) = SelectSeq(call.hosts, Untouched)
    /\ \E f \in [DOMAIN call.newHosts -> DOMAIN call.hosts] :
          /\ \A j, k \in DOMAIN f : j < k => f[j] < f[k]
          /\ \A k \in DOMAIN f : /\ call.newHosts[k][1] = call.hosts[f[k]][1]
                                 /\ NamesOf(call.newHosts[k]) \subseteq NamesOf(call.hosts[f[k]])

----------------------------------------------------------------------------
\* updateCapabilities, applied to one service spec update after update. The
\* maps of the code are sets of (normalised) capability names; call.add and
\* call.drop are the values of --cap-add and --cap-drop of the last update
\* (empty when the flag was not changed), call.old the lists before it.
MaxUpdates == 2
MaxCapList == 2
MaxFlagValues == 2

AllCapabilities == "ALL"
ResetCapabilities == "RESET"
\* The capability names, in the order sort.Strings gives them.
SortedCaps == <<AllCapabilities, "CAP_CHOWN", "CAP_KILL">>
Caps == {SortedCaps[k] : k \in DOMAIN SortedCaps}

\* opts.CapabilitiesMap: the names of a list, as the keys of a map
CapabilitiesMap(list) == {list[k] : k \in DOMAIN list}

\* The values of a flag, RESET taken out: delete(toAdd, opts.ResetCapabilities)
WithoutReset(values) == values \ {ResetCapabilities}

\* The existing map, emptied when the flag holds RESET.
ResetBy(caps, values) == IF ResetCapabilities \in values THEN {} ELSE caps

\* The drop loop taking no notice of what is being added.
dropLoop_IgnoresAdd(capAdd, capDrop, toAdd, toDrop) ==
    [capAdd |-> capAdd \ toDrop, capDrop |-> capDrop \cup (toDrop \ capAdd)]

\* for c := range toDrop: skipped when c is being added; otherwise c leaves
\* capAdd if it is there and enters capDrop if not. Each iteration touches
\* key c only, so the order of the iteration does not matter.
dropLoop(capAdd, capDrop, toAdd, toDrop) ==
    LET dropped == toDrop \ toAdd
    IN  [capAdd |-> capAdd \ dropped, capDrop |-> capDrop \cup (dropped \ capAdd)]

\* The add loop entering every capability in capAdd, dropped before or not.
addLoop_NoTriState(capAdd, capDrop, toAdd) ==
    [capAdd |-> capAdd \cup toAdd, capDrop |-> capDrop \ toAdd]

\* The add loop leaving capDrop as it is.
addLoop_KeepsDrop(capAdd, capDrop, toAdd) ==
    [capAdd |-> capAdd \cup toAdd, capDrop |-> capDrop]

\* for c := range toAdd: c leaves capDrop if it is there and enters capAdd if not
addLoop(capAdd, capDrop, toAdd) ==
    [capAdd |-> capAdd \cup (toAdd \ capDrop), capDrop |-> capDrop \ toAdd]

\* capsList: nil, or ALL alone, or the names sorted
capsList(caps) ==
    IF caps = {} THEN <<>>
    ELSE IF AllCapabilities \in caps THEN <<AllCapabilities>>
    ELSE SelectSeq(SortedCaps, LAMBDA name : name \in caps)

\* What updateCapabilities leaves in the spec.
UpdatedCapabilities(spec, add, drop) ==
    LET capDrop == ResetBy(CapabilitiesMap(spec.CapabilityDrop), drop)
        capAdd == ResetBy(CapabilitiesMap(spec.CapabilityAdd), add)
        toAdd == WithoutReset(add)
        toDrop == WithoutReset(drop)
        afterDrop == dropLoop(capAdd, capDrop, toAdd, toDrop)
        afterAdd == addLoop(afterDrop.capAdd, afterDrop.capDrop, toAdd)
    IN  [CapabilityAdd |-> capsList(afterAdd.capAdd),
         CapabilityDrop |-> capsList(afterAdd.capDrop)]

\* The capabilities the last update took out of one list without entering
\* them in the other.
TriState ==
    LET now == call.spec
    IN  [undropped |-> {name \in WithoutReset(call.add) :
                            /\ name \in CapabilitiesMap(call.old.CapabilityDrop)
                            /\ name \notin CapabilitiesMap(now.CapabilityDrop)
                            /\ name \notin CapabilitiesMap(now.CapabilityAdd)},
         unadded |-> {name \in WithoutReset(call.drop) :
                            /\ name \in CapabilitiesMap(call.old.CapabilityAdd)
                            /\ name \notin CapabilitiesMap(now.CapabilityAdd)
                            /\ name \notin CapabilitiesMap(now.CapabilityDrop)}]

\* updateCapabilities(flags, containerSpec)
updateCapabilities ==
    /\ call.fn = "updateCapabilities" /\ call.n < MaxUpdates
    /\ \E add, drop \in {values \in SUBSET (Caps \cup {ResetCapabilities}) :
                            Cardinality(values) <= MaxFlagValues} :
          call' = [call EXCEPT !.n = @ + 1, !.old = call.spec, !.add = add, !.drop = drop,
                               !.was = TriState,
                               !.spec = UpdatedCapabilities(call.spec, add, drop)]
    /\ UNCHANGED idle

CapsInit ==
    /\ Idle
    /\ \E spec \in [CapabilityAdd : SeqUpTo(Caps, MaxCapList),
                    CapabilityDrop : SeqUpTo(Caps, MaxCapList)] :
          call = [fn |-> "updateCapabilities", n |-> 0, spec |-> spec, old |-> spec,
                  add |-> {}, drop |-> {}, was |-> [undropped |-> {}, unadded |-> {}],
                  disjoint |-> CapabilitiesMap(spec.CapabilityAdd)
                                   \cap CapabilitiesMap(spec.CapabilityDrop) = {}]

CapsSpec == CapsInit /\ [][updateCapabilities]_vars

Updated == call.fn = "updateCapabilities" /\ call.n > 0

\* C24: a capability named by both flags of one update is added, its drop
\* ignored: the resulting CapabilityAdd and CapabilityDrop are those of the
\* same update with the capability left out of the drop flag.
C24_AddWinsOverDrop ==
    Updated =>
        \A name \in (call.add \cap call.drop) \ {ResetCapabilities} :
            call.spec = UpdatedCapabilities(call.old, call.add, call.drop \ {name})

C24_Witness ==
    /\ Updated
    /\ call.add = {"CAP_KILL"} /\ call.drop = {"CAP_KILL", "CAP_CHOWN"}
    /\ call.old = [CapabilityAdd |-> <<"CAP_KILL">>, CapabilityDrop |-> <<>>]
    /\ call.spec = [CapabilityAdd |-> <<"CAP_KILL">>, CapabilityDrop |-> <<"CAP_CHOWN">>]

\* A list as capsList writes it: sorted and duplicate-free, and ALL alone
\* when ALL is in it.
Normalised(list) ==
    /\ \A j, k \in DOMAIN list : j < k =>
          \E p, q \in DOMAIN SortedCaps : p < q /\ SortedCaps[p] = list[j] /\ SortedCaps[q] = list[k]
    /\ AllCapabilities \in CapabilitiesMap(list) => list = <<AllCapabilities>>

\* A list holds the capability, by name or by ALL.
Holds(list, name) == {name, AllCapabilities} \cap CapabilitiesMap(list) # {}

\* The tri-state of an update; with resetsApart, an update whose other flag
\* holds RESET is set aside.
TriStateRule(resetsApart) ==
    LET excepted(values) == resetsApart /\ ResetCapabilities \in values
        oldAdd == CapabilitiesMap(call.old.CapabilityAdd)
        oldDrop == CapabilitiesMap(call.old.CapabilityDrop)
        newAdd == CapabilitiesMap(call.spec.CapabilityAdd)
        newDrop == CapabilitiesMap(call.spec.CapabilityDrop)
    IN  /\ \A name \in WithoutReset(call.add) :
              /\ (name \in oldDrop /\ ~excepted(call.drop)) =>
                      name \notin newDrop /\ (name \in newAdd => name \in oldAdd)
              /\ name \in call.was.undropped => Holds(call.spec.CapabilityAdd, name)
        /\ \A name \in WithoutReset(call.drop) \ call.add :
              /\ (name \in oldAdd /\ ~excepted(call.add)) =>
                      name \notin newAdd /\ (name \in newDrop => name \in oldDrop)
              /\ name \in call.was.unadded => Holds(call.spec.CapabilityDrop, name)
        /\ Normalised(call.spec.CapabilityAdd)
        /\ Normalised(call.spec.CapabilityDrop)

C30_AddDropDisjoint ==
    (Updated /\ call.disjoint) =>
        CapabilitiesMap(call.spec.CapabilityAdd) \cap CapabilitiesMap(call.spec.CapabilityDrop) = {}

C30_Witness ==
    /\ Updated /\ call.disjoint /\ call.n = 2
    /\ call.add = {ResetCapabilities, "CAP_KILL"} /\ call.drop = {"CAP_KILL", "CAP_CHOWN"}
    /\ call.old = [CapabilityAdd |-> <<"CAP_CHOWN">>, CapabilityDrop |-> <<"CAP_KILL">>]
    /\ call.spec = [CapabilityAdd |-> <<>>, CapabilityDrop |-> <<"CAP_CHOWN">>]

----------------------------------------------------------------------------
\* runUpdate of `docker service update`, as far as the rollback decides what
\* is sent. call.changed is the set of flags with flags.Changed, call.version
\* the API version <<major, minor>>, call.requests the ServiceUpdate calls:
\* the spec submitted ("current", "previous", or "updated" by the flags), the
\* options' Rollback and RegistryAuthFrom.
ServiceFlags == {"detach", "quiet", "image", "replicas"}
APIVersions == {<<1, 25>>, <<1, 27>>, <<1, 28>>, <<1, 29>>}

\* versions.LessThan on dotted versions of two numbers
LessThan(v, other) == v[1] < other[1] \/ (v[1] = other[1] /\ v[2] < other[2])

\* Every changed flag but --rollback counting as another flag.
otherFlagsPassed_CountsDetach(changed) == changed # {}

\* flags.VisitAll: a changed flag other than rollback, detach and quiet
otherFlagsPassed(changed) == changed \ {"rollback", "detach", "quiet"} # {}

\* runUpdate(ctx, dockerCLI, flags, options, serviceID)
service_runUpdate ==
    /\ call.fn = "service.runUpdate" /\ call.pc = "call"
    /\ LET clientSideRollback == call.rollback /\ LessThan(call.version, <<1, 28>>)
           serverSideRollback == call.rollback /\ ~LessThan(call.version, <<1, 28>>)
           spec == IF clientSideRollback THEN "previous"
                   ELSE IF otherFlagsPassed(call.changed) THEN "updated" ELSE "current"
           request == [spec |-> spec,
                       Rollback |-> IF serverSideRollback THEN "previous" ELSE "",
                       RegistryAuthFrom |-> IF clientSideRollback THEN "previous-spec" ELSE "spec"]
           waits == ~(call.detach \/ LessThan(call.version, <<1, 29>>))
           return(err) == call' = [call EXCEPT !.pc = "returned", !.err = err]
       IN  IF call.inspectErr # Nil THEN return(call.inspectErr)
           ELSE IF call.rollback /\ otherFlagsPassed(call.changed)
                THEN return(ErrorsNew("other flags may not be combined with --rollback"))
           ELSE IF clientSideRollback /\ ~call.hasPrevious
                THEN return(ErrorsNew("service does not have a previous specification to roll back to"))
           ELSE IF call.prepareErr # Nil THEN return(call.prepareErr)
           ELSE IF call.updateErr # Nil
                THEN call' = [call EXCEPT !.pc = "returned", !.err = call.updateErr,
                                          !.requests = <<request>>]
           ELSE call' = [call EXCEPT !.pc = "returned", !.requests = <<request>>,
                                     !.out = <<"serviceID">>,
                                     !.err = IF waits THEN call.waitErr ELSE Nil]
    /\ UNCHANGED idle

\* The flags changing the spec are the only ones whose handling can fail before
\* the update is sent; WaitOnService is consulted only when it is called.
ServiceInit ==
    /\ Idle
    /\ \E rollback, hasPrevious, detach \in BOOLEAN, changed \in SUBSET ServiceFlags,
          version \in APIVersions, inspectErr \in {Nil, ErrorsNew("no such service")},
          prepareErr, updateErr, waitErr \in {Nil, ErrorsNew("update failed")} :
        /\ detach => "detach" \in changed
        /\ prepareErr # Nil => otherFlagsPassed(changed)
        /\ call = [fn |-> "service.runUpdate", pc |-> "call", rollback |-> rollback,
                   changed |-> changed, detach |-> detach, version |-> version,
                   hasPrevious |-> hasPrevious,
                   inspectErr |-> inspectErr, prepareErr |-> prepareErr,
                   updateErr |-> updateErr, waitErr |-> waitErr,
                   requests |-> <<>>, out |-> <<>>, err |-> Pending]

ServiceUpdateSpec == ServiceInit /\ [][service_runUpdate]_vars

\* C26: with the rollback flag set (and the service found), a change of any
\* flag other than rollback, detach and quiet fails with 'other flags may not
\* be combined with --rollback' and nothing is sent; an API older than 1.28
\* and no previous spec fails and nothing is sent; otherwise one update is
\* sent, with Rollback 'previous' on API 1.28 or later, and with the previous
\* specification on an older API.
C26_Rollback ==
    (call.fn = "service.runUpdate" /\ call.pc = "returned"
        /\ call.rollback /\ call.inspectErr = Nil) =>
        LET others == call.changed \cap {"image", "replicas"} # {}
            old == call.version[1] = 1 /\ call.version[2] < 28
            combined == ErrorsNew("other flags may not be combined with --rollback")
        IN  /\ others => call.err = combined /\ call.requests = <<>>
            /\ ~others => call.err # combined
            /\ (~others /\ old /\ ~call.hasPrevious) =>
                    /\ call.err \notin {Nil, Pending} /\ call.requests = <<>>
            /\ (~others /\ ~old) =>
                    /\ Len(call.requests) = 1
                    /\ call.requests[1].Rollback = "previous"
                    /\ call.requests[1].spec = "current"
            /\ (~others /\ old /\ call.hasPrevious) =>
                    /\ Len(call.requests) = 1
                    /\ call.requests[1].spec = "previous"
                    /\ call.requests[1].Rollback = ""

C26_Witness ==
    /\ call.fn = "service.runUpdate" /\ call.pc = "returned"
    /\ call.rollback /\ call.changed = {"detach"} /\ call.version = <<1, 27>>
    /\ call.hasPrevious /\ call.err = Nil
    /\ call.requests = <<[spec |-> "previous", Rollback |-> "", RegistryAuthFrom |-> "previous-spec"]>>

----------------------------------------------------------------------------
\* getUpdatedConfigs and removeConfigs. A config reference is [ConfigName,
\* ConfigID, Runtime], Runtime telling whether it has a Runtime target; the
\* references of an accepted spec have a name and an ID. call.credSpec is the
\* value of a changed --credential-spec flag ([changed, Config], Config "" when
\* it names no config), call.specCredSpec the Config of the existing
\* credential spec ("" when there is none or it is not a config).
MaxConfigs == 2

ConfigNames == {"cfg1", "cfg2"}
ConfigRefs == [ConfigName : ConfigNames, ConfigID : {"id1", "id2"}, Runtime : BOOLEAN]

\* A Runtime-target reference answering to the remove flag like any other.
keepConfig_RemoveApplies(config, toRemove, credSpecName, credSpecID) ==
    /\ config.ConfigName \notin toRemove
    /\ config.Runtime => (config.ConfigName = credSpecName \/ config.ConfigID = credSpecID)

\* removeConfigs, for one config of spec.Configs
keepConfig(config, toRemove, credSpecName, credSpecID) ==
    IF config.Runtime
    THEN config.ConfigName = credSpecName \/ config.ConfigID = credSpecID
    ELSE config.ConfigName \notin toRemove

\* getUpdatedConfigs(ctx, apiClient, flags, spec); ParseConfigs resolves the
\* IDs of the references to add, or fails
getUpdatedConfigs ==
    /\ call.fn = "getUpdatedConfigs" /\ call.pc = "call"
    /\ LET credSpecConfigName == IF call.credSpec.changed THEN call.credSpec.Config ELSE ""
           credSpecConfigID == IF call.credSpec.changed THEN "" ELSE call.specCredSpec
           newConfigs == SelectSeq(call.Configs,
                             LAMBDA config : keepConfig(config, call.remove,
                                                        credSpecConfigName, credSpecConfigID))
           resolveConfigs ==
               [k \in DOMAIN call.add |-> [ConfigName |-> call.add[k], Runtime |-> FALSE]]
                   \o (IF credSpecConfigName # ""
                       THEN <<[ConfigName |-> credSpecConfigName, Runtime |-> TRUE]>>
                       ELSE <<>>)
           addConfigs == [k \in DOMAIN resolveConfigs |->
                            [ConfigName |-> resolveConfigs[k].ConfigName, ConfigID |-> "resolved",
                             Runtime |-> resolveConfigs[k].Runtime]]
       IN  call' = IF resolveConfigs # <<>> /\ call.parseErr # Nil
                   THEN [call EXCEPT !.pc = "returned", !.err = call.parseErr,
                                     !.kept = newConfigs]
                   ELSE [call EXCEPT !.pc = "returned", !.err = Nil, !.kept = newConfigs,
                                     !.result = newConfigs \o addConfigs]
    /\ UNCHANGED idle

ConfigsInit ==
    /\ Idle
    /\ \E Configs \in SeqUpTo(ConfigRefs, MaxConfigs), remove \in SUBSET ConfigNames,
          add \in SeqUpTo(ConfigNames, 1), changed \in BOOLEAN, Config \in ConfigNames \cup {""},
          specCredSpec \in {"", "id1", "id2"}, parseErr \in {Nil, ErrorsNew("config not found")} :
        /\ ~changed => Config = ""
        /\ call = [fn |-> "getUpdatedConfigs", pc |-> "call", Configs |-> Configs,
                   remove |-> remove, add |-> add,
                   credSpec |-> [changed |-> changed, Config |-> Config],
                   specCredSpec |-> specCredSpec, parseErr |-> parseErr,
                   kept |-> <<>>, result |-> <<>>, err |-> Pending]

ConfigsSpec == ConfigsInit /\ [][getUpdatedConfigs]_vars

\* C27: of the existing references, one with a Runtime target is kept exactly
\* when its name is the config named by a changed credential-spec flag or,
\* the flag not changed, its ID is the config ID of the existing credential
\* spec, whatever the config-remove flag holds; one without a Runtime target
\* is kept exactly when its name is not in the config-remove set.
C27_ConfigsKept ==
    (call.fn = "getUpdatedConfigs" /\ call.pc = "returned") =>
        LET wanted(config) ==
                IF config.Runtime
                THEN \/ call.credSpec.changed /\ config.ConfigName = call.credSpec.Config
                     \/ ~call.credSpec.changed /\ config.ConfigID = call.specCredSpec
                ELSE config.ConfigName \notin call.remove
        IN  /\ call.kept = SelectSeq(call.Configs, wanted)
            /\ call.err = Nil =>
                  SubSeq(call.result, 1, Len(call.kept)) = call.kept

C27_Witness ==
    /\ call.fn = "getUpdatedConfigs" /\ call.pc = "returned" /\ call.err = Nil
    /\ call.Configs = <<[ConfigName |-> "cfg1", ConfigID |-> "id1", Runtime |-> TRUE],
                        [ConfigName |-> "cfg1", ConfigID |-> "id1", Runtime |-> FALSE]>>
    /\ call.remove = {"cfg1"} /\ ~call.credSpec.changed /\ call.specCredSpec = "id1"
    /\ call.kept = <<[ConfigName |-> "cfg1", ConfigID |-> "id1", Runtime |-> TRUE]>>

----------------------------------------------------------------------------
\* ClientOptions.SetDefaultOptions, called after InstallFlags and flag
\* parsing. call.o is the ClientOptions (TLS, TLSVerify, TLSOptions, whose
\* `nil` tells a nil pointer), call.old its value before the call, call.changed
\* the flags with flags.Changed, call.stat what os.Stat finds at the
\* certificate and key paths: "exists", "notexist", or "denied".
DefaultPath(file) == IF file = "CertFile" THEN "~/.docker/cert.pem" ELSE "~/.docker/key.pem"

\* TLS following the verification setting and the --tls flag only.
TLSEnabled_ByValueOnly(changed, o) == o.TLSVerify \/ o.TLS

\* if flags.Changed(FlagTLSVerify) || o.TLSVerify { o.TLS = true }
TLSEnabled(changed, o) == "tlsverify" \in changed \/ o.TLSVerify \/ o.TLS

\* The path of a certificate or key file after the reset of a default not found.
ResetIfNotExist(path, flagChanged, stat) ==
    IF ~flagChanged /\ stat = "notexist" THEN "" ELSE path

\* o.SetDefaultOptions(flags)
SetDefaultOptions ==
    /\ call.fn = "SetDefaultOptions" /\ call.pc = "call"
    /\ LET o == call.o
           tls == TLSEnabled(call.changed, o)
           tlsOptions == o.TLSOptions
       IN  call' = [call EXCEPT
               !.pc = "returned",
               !.old = o,
               !.o = [o EXCEPT
                   !.TLS = tls,
                   !.TLSOptions =
                       IF ~tls
                       THEN [nil |-> TRUE, CAFile |-> "", CertFile |-> "", KeyFile |-> "",
                             InsecureSkipVerify |-> FALSE]
                       ELSE [tlsOptions EXCEPT
                               !.InsecureSkipVerify = ~o.TLSVerify,
                               !.CertFile = ResetIfNotExist(@, "tlscert" \in call.changed,
                                                            call.stat.CertFile),
                               !.KeyFile = ResetIfNotExist(@, "tlskey" \in call.changed,
                                                           call.stat.KeyFile)]]]
    /\ UNCHANGED idle

\* The options as InstallFlags and the parsed flags leave them: a path is the
\* default unless its flag was given.
OptionsInit ==
    /\ Idle
    /\ \E changed \in SUBSET {"tlsverify", "tlscert", "tlskey"}, TLS, TLSVerify \in BOOLEAN,
          CertFile \in {DefaultPath("CertFile"), "my/cert.pem", ""},
          KeyFile \in {DefaultPath("KeyFile"), "my/key.pem", ""},
          stat \in [CertFile : {"exists", "notexist", "denied"},
                    KeyFile : {"exists", "notexist", "denied"}] :
        /\ "tlscert" \notin changed <=> CertFile = DefaultPath("CertFile")
        /\ "tlskey" \notin changed <=> KeyFile = DefaultPath("KeyFile")
        /\ CertFile = "" => stat.CertFile = "notexist"
        /\ KeyFile = "" => stat.KeyFile = "notexist"
        /\ LET o == [TLS |-> TLS, TLSVerify |-> TLSVerify,
                     TLSOptions |-> [nil |-> FALSE, CAFile |-> "~/.docker/ca.pem",
                                     CertFile |-> CertFile, KeyFile |-> KeyFile,
                                     InsecureSkipVerify |-> FALSE]]
           IN  call = [fn |-> "SetDefaultOptions", pc |-> "call", changed |-> changed,
                       stat |-> stat, o |-> o, old |-> o]

OptionsSpec == OptionsInit /\ [][SetDefaultOptions]_vars

\* C28: after SetDefaultOptions TLS is on whenever the tlsverify flag was
\* given at all or TLSVerify is true; TLSOptions is nil exactly when TLS is
\* off; with TLS on, InsecureSkipVerify is the negation of TLSVerify, and a
\* certificate or key path is emptied only when its flag was not given and the
\* file does not exist, and is otherwise as it was.
C28_TLSDefaults ==
    (call.fn = "SetDefaultOptions" /\ call.pc = "returned") =>
        LET o == call.o
            old == call.old
            emptied(file, flag) == o.TLSOptions[file] = "" /\ old.TLSOptions[file] # ""
            rule(file, flag) ==
                /\ emptied(file, flag) <=> (flag \notin call.changed /\ call.stat[file] = "notexist")
                /\ ~emptied(file, flag) => o.TLSOptions[file] = old.TLSOptions[file]
        IN  /\ ("tlsverify" \in call.changed \/ old.TLSVerify) => o.TLS
            /\ o.TLS <=> ("tlsverify" \in call.changed \/ old.TLSVerify \/ old.TLS)
            /\ o.TLSVerify = old.TLSVerify
            /\ o.TLSOptions.nil <=> ~o.TLS
            /\ o.TLS =>
                  /\ o.TLSOptions.InsecureSkipVerify = ~o.TLSVerify
                  /\ rule("CertFile", "tlscert")
                  /\ rule("KeyFile", "tlskey")
                  /\ o.TLSOptions.CAFile = old.TLSOptions.CAFile

C28_Witness ==
    /\ call.fn = "SetDefaultOptions" /\ call.pc = "returned"
    /\ call.changed = {"tlsverify", "tlskey"}
    /\ ~call.old.TLS /\ ~call.old.TLSVerify
    /\ call.stat = [CertFile |-> "notexist", KeyFile |-> "denied"]
    /\ call.o.TLS /\ ~call.o.TLSOptions.nil /\ call.o.TLSOptions.InsecureSkipVerify
    /\ call.o.TLSOptions.CertFile = "" /\ call.o.TLSOptions.KeyFile = "my/key.pem"

----------------------------------------------------------------------------
\* runUpdate of `docker container update`. call.outcomes gives, for each
\* listed container in turn, what ContainerUpdate answers: "ok", "warn" (done,
\* with a warning) or "fail"; call.out holds what is written to
\* dockerCli.Out(), the names and the warnings apart.
MaxContainers == 3

\* strings.Join
RECURSIVE Join(_, _)
Join(elems, sep) ==
    IF elems = <<>> THEN ""
    ELSE IF Len(elems) = 1 THEN elems[1]
    ELSE elems[1] \o sep \o Join(Tail(elems), sep)

\* err.Error() of a failed ContainerUpdate
UpdateFailure(ctr) == "Error response from daemon: No such container: " \o ctr

\* The loop giving up at the first failure.
RECURSIVE updateEach_StopsAtFailure(_, _)
updateEach_StopsAtFailure(containers, outcomes) ==
    IF containers = <<>> THEN [requests |-> <<>>, names |-> <<>>, warns |-> <<>>, errs |-> <<>>]
    ELSE LET ctr == Head(containers)
             rest == IF Head(outcomes) = "fail"
                     THEN updateEach_StopsAtFailure(<<>>, <<>>)
                     ELSE updateEach_StopsAtFailure(Tail(containers), Tail(outcomes))
         IN  [requests |-> <<ctr>> \o rest.requests,
              names |-> (IF Head(outcomes) = "fail" THEN <<>> ELSE <<ctr>>) \o rest.names,
              warns |-> (IF Head(outcomes) = "warn" THEN <<"warning: " \o ctr>> ELSE <<>>) \o rest.warns,
              errs |-> (IF Head(outcomes) = "fail" THEN <<UpdateFailure(ctr)>> ELSE <<>>) \o rest.errs]

\* for _, ctr := range options.containers { ... }
RECURSIVE updateEach(_, _)
updateEach(containers, outcomes) ==
    IF containers = <<>> THEN [requests |-> <<>>, names |-> <<>>, warns |-> <<>>, errs |-> <<>>]
    ELSE LET ctr == Head(containers)
             rest == updateEach(Tail(containers), Tail(outcomes))
         IN  [requests |-> <<ctr>> \o rest.requests,
              names |-> (IF Head(outcomes) = "fail" THEN <<>> ELSE <<ctr>>) \o rest.names,
              warns |-> (IF Head(outcomes) = "warn" THEN <<"warning: " \o ctr>> ELSE <<>>) \o rest.warns,
              errs |-> (IF Head(outcomes) = "fail" THEN <<UpdateFailure(ctr)>> ELSE <<>>) \o rest.errs]

\* runUpdate(ctx, dockerCli, options)
container_runUpdate ==
    /\ call.fn = "container.runUpdate" /\ call.pc = "call"
    /\ LET done == updateEach(call.containers, call.outcomes)
       IN  call' =
             IF call.nFlag = 0
             THEN [call EXCEPT !.pc = "returned", !.err = ErrorsNew(
                       "you must provide one or more flags when using this command")]
             ELSE IF call.restartPolicy # "" /\ call.parseErr # Nil
             THEN [call EXCEPT !.pc = "returned", !.err = call.parseErr]
             ELSE [call EXCEPT !.pc = "returned",
                               !.requests = done.requests,
                               !.out = [names |-> done.names,
                                        warnings |-> IF done.warns # <<>>
                                                     THEN <<Join(done.warns, "\n")>> ELSE <<>>],
                               !.err = IF done.errs # <<>>
                                       THEN ErrorsNew(Join(done.errs, "\n")) ELSE Nil]
    /\ UNCHANGED idle

\* options.restartPolicy is set by a flag; opts.ParseRestartPolicy accepts it or not.
ContainerUpdateInit ==
    /\ Idle
    /\ \E n \in 1..MaxContainers, nFlag \in 0..2, restartPolicy \in {"", "always", "on-failure:x"} :
       \E containers \in [1..n -> {"c1", "c2"}], outcomes \in [1..n -> {"ok", "warn", "fail"}] :
        /\ restartPolicy # "" => nFlag > 0
        /\ call = [fn |-> "container.runUpdate", pc |-> "call", nFlag |-> nFlag,
                   restartPolicy |-> restartPolicy,
                   parseErr |-> IF restartPolicy = "on-failure:x"
                                THEN ErrorsNew("maximum retry count must be an integer")
                                ELSE Nil,
                   containers |-> containers, outcomes |-> outcomes,
                   requests |-> <<>>, out |-> [names |-> <<>>, warnings |-> <<>>],
                   err |-> Pending]

ContainerUpdateSpec == ContainerUpdateInit /\ [][container_runUpdate]_vars

\* What the claim describes of a call in which some flag is set and every
\* container is sent its update.
UpdatesAll ==
    LET n == Len(call.containers)
        failed == {i \in 1..n : call.outcomes[i] = "fail"}
        Pick(S, val(_)) ==
            [k \in 1..Cardinality(S) |->
                val(CHOOSE i \in S : Cardinality({j \in S : j <= i}) = k)]
    IN  /\ call.requests = call.containers
        /\ call.out.names = Pick((1..n) \ failed, LAMBDA i : call.containers[i])
        /\ call.err = Nil <=> failed = {}
        /\ failed # {} =>
              call.err = ErrorsNew(Join(Pick(failed, LAMBDA i : UpdateFailure(call.containers[i])), "\n"))

\* The claim as stated: whenever a flag is set every container is sent its update.
C29_Original ==
    (call.fn = "container.runUpdate" /\ call.pc = "returned") =>
        IF call.nFlag = 0
        THEN /\ call.err = ErrorsNew("you must provide one or more flags when using this command")
             /\ call.requests = <<>>
        ELSE UpdatesAll

\* C29: with no flag set the command fails with 'you must provide one or more
\* flags when using this command' and sends nothing; with a restart policy
\* that does not parse it fails with the parse error and sends nothing;
\* otherwise it sends one update per listed container, in order, going on
\* after a failure, prints the names of exactly the containers updated, in
\* order, and returns nil exactly when every update succeeded, else one error
\* whose message is the failures' messages joined by newlines.
C29_ContainerUpdate ==
    (call.fn = "container.runUpdate" /\ call.pc = "returned") =>
        IF call.nFlag = 0
        THEN /\ call.err = ErrorsNew("you must provide one or more flags when using this command")
             /\ call.requests = <<>> /\ call.out.names = <<>>
        ELSE IF call.restartPolicy # "" /\ call.parseErr # Nil
        THEN /\ call.err = call.parseErr /\ call.err # Nil
             /\ call.requests = <<>> /\ call.out.names = <<>>
        ELSE UpdatesAll

C29_Witness ==
    /\ call.fn = "container.runUpdate" /\ call.pc = "returned"
    /\ call.nFlag = 1 /\ call.restartPolicy = "always"
    /\ call.containers = <<"c1", "c2", "c1">> /\ call.outcomes = <<"fail", "ok", "fail">>
    /\ call.requests = <<"c1", "c2", "c1">>
    /\ call.out.names = <<"c2">>
    /\ call.err = ErrorsNew("Error response from daemon: No such container: c1\nError response from daemon: No such container: c1")

====
